---- MODULE Spec2Model ----
(***************************************************************************)
(* Model of web-scraper-markdown.js: the command-line entry point, the     *)
(* breadth-first crawl loop of scrapeToMarkdown with its per-page          *)
(* try/catch/finally, the same-domain link filter, the file-name           *)
(* derivation, createIndexMarkdown and the release of the rendering        *)
(* engine.                                                                 *)
(*                                                                         *)
(* An address is a record standing for a URL string.  kind = "url" is a    *)
(* string that `new URL` parses (host, path, query, frag are its parts and *)
(* canon tells whether the string already is the serialisation that        *)
(* URL.toString() produces); kind = "js" and "mailto" are javascript: and  *)
(* mailto: links; kind = "bad" is a string `new URL` rejects, spelled by   *)
(* the tokens in path.  A path is a sequence of one-character tokens.      *)
(***************************************************************************)
EXTENDS Integers, Sequences, FiniteSets, TLC

\* ------------------------------------------------------------------ bounds
\* longest list of <a href> elements a rendered page carries
MaxLinks == 2
\* largest depth given on the command line
MaxDepthArg == 1
\* largest number of child elements of an ordered list
MaxChildren == 2

\* ------------------------------------------------------- program constants
\* parseInt(process.argv[3]) || 2
DefaultMaxDepth == 2

\* ---------------------------------------------------------------- addresses
HostA == "https://example.com"
HostB == "https://other.org"

Url(h, p, q, f) ==
  [kind |-> "url", host |-> h, path |-> p, query |-> q, frag |-> f, canon |-> TRUE]
Bad(toks) ==
  [kind |-> "bad", host |-> "", path |-> toks, query |-> "", frag |-> "", canon |-> TRUE]

\* 'https://example.com', the default of process.argv[2]: no trailing slash
DefaultTarget == [Url(HostA, <<"/">>, "", "") EXCEPT !.canon = FALSE]
RootA   == Url(HostA, <<"/">>, "", "")
PageA   == Url(HostA, <<"/", "a">>, "", "")
PageAf  == Url(HostA, <<"/", "a">>, "", "f")
PageAq  == Url(HostA, <<"/", "a">>, "q", "")
PageB   == Url(HostB, <<"/", "a">>, "", "")
JsLink  == [kind |-> "js", host |-> "", path |-> <<>>, query |-> "", frag |-> "", canon |-> TRUE]
\* an href the browser cannot resolve is returned as written: '//['
SlashBad == Bad(<<"/", "/", "[">>)
\* a seed typed without its scheme: 'example.com'
NoScheme == Bad(<<"example.com">>)
NoAddr  == [kind |-> "none", host |-> "", path |-> <<>>, query |-> "", frag |-> "", canon |-> TRUE]

\* the values of a.href a rendered page may carry
Hrefs == {PageA, PageAf, PageAq, PageB, JsLink, SlashBad}
\* the values of process.argv[2]
SeedArgs == {PageAf, PageB, NoScheme}

\* the string an address stands for, as a sequence of tokens
Str(a) ==
  IF a.kind = "url"
    THEN <<a.host>> \o (IF a.canon THEN a.path ELSE <<>>)
         \o (IF a.query = "" THEN <<>> ELSE <<"?", a.query>>)
         \o (IF a.frag = "" THEN <<>> ELSE <<"#", a.frag>>)
  ELSE IF a.kind = "js" THEN <<"javascript:">>
  ELSE IF a.kind = "mailto" THEN <<"mailto:">>
  ELSE a.path

\* new URL(s) does not throw
Parses(a) == a.kind \in {"url", "js", "mailto"}

StartsWithSlash(a) == Str(a) # <<>> /\ Head(Str(a)) = "/"

\* ------------------------------------------------------------ removeFragment
\* the catch branch returning nothing instead of its argument
removeFragmentOrNothing(a) ==
  IF Parses(a)
    THEN [a EXCEPT !.frag = "", !.canon = TRUE]
    ELSE NoAddr

removeFragment(a) ==
  IF Parses(a)
    THEN [a EXCEPT !.frag = "", !.canon = TRUE]
    ELSE a

\* ------------------------------------------------------------------- main
\* process.argv[2] || 'https://example.com'
ParseTarget(arg) == IF arg.given THEN arg.url ELSE DefaultTarget
\* parseInt(process.argv[3]) || 2 : NaN and 0 are both falsy
ParseDepth(arg) == IF arg.given /\ arg.n # 0 THEN arg.n ELSE DefaultMaxDepth

UrlArgs == {[given |-> FALSE, url |-> NoAddr]}
           \cup {[given |-> TRUE, url |-> u] : u \in SeedArgs}
\* the depths given on the command line; 0 stands for every falsy value
DepthArgs == {[given |-> TRUE, n |-> k] : k \in (-1)..MaxDepthArg}

\* ------------------------------------------------- output file name (117-121)
\* parsedUrl.pathname.replace(/\//g, '_')
SlashesToUnderscores(p) == [i \in 1..Len(p) |-> IF p[i] = "/" THEN "_" ELSE p[i]]
\* .replace(/^_/, '')
StripLeadingUnderscore(p) == IF p # <<>> /\ Head(p) = "_" THEN Tail(p) ELSE p
\* fileName.endsWith('.md')
EndsWithMd(p) == p # <<>> /\ p[Len(p)] = ".md"

FileName(normalizedUrl) ==
  LET replaced == StripLeadingUnderscore(SlashesToUnderscores(normalizedUrl.path))
      named    == IF replaced = <<>> THEN <<"index">> ELSE replaced
  IN  IF EndsWithMd(named) THEN named ELSE named \o <<".md">>

\* fileName.replace('.md', '.png') replaces the first occurrence only
ScreenshotName(fileName) ==
  LET hits == {i \in 1..Len(fileName) : fileName[i] = ".md"}
  IN  IF hits = {} THEN fileName
      ELSE LET first == CHOOSE i \in hits : \A j \in hits : i <= j
           IN  [fileName EXCEPT ![first] = ".png"]

\* ------------------------------------------------- link harvest (149-181)
\* href && !href.startsWith('javascript:') && !href.startsWith('mailto:')
FollowableScheme(href) == href.kind \notin {"js", "mailto"}

\* the filter without its host comparison
sameDomainAnyHost(urlStr, baseUrl) ==
  IF StartsWithSlash(urlStr) THEN TRUE
  ELSE IF ~Parses(baseUrl) \/ ~Parses(urlStr) THEN FALSE
  ELSE TRUE

sameDomain(urlStr, baseUrl) ==
  IF StartsWithSlash(urlStr) THEN TRUE
  ELSE IF ~Parses(baseUrl) \/ ~Parses(urlStr) THEN FALSE
  ELSE urlStr.host = baseUrl.host

RECURSIVE Filter(_, _)
Filter(links, baseUrl) ==
  IF links = <<>> THEN <<>>
  ELSE LET rest == Filter(Tail(links), baseUrl)
       IN  IF FollowableScheme(Head(links)) /\ sameDomain(Head(links), baseUrl)
             THEN <<Head(links)>> \o rest
             ELSE rest

\* [...new Set(links)] keeps the first occurrence of each string
RECURSIVE Unique(_)
Unique(links) ==
  IF links = <<>> THEN <<>>
  ELSE LET front == Unique(SubSeq(links, 1, Len(links) - 1))
           last  == links[Len(links)]
       IN  IF \E i \in 1..Len(front) : front[i] = last
             THEN front
             ELSE Append(front, last)

\* the loop of lines 175-181: the entries pushed for one page
NotVisited(link, visited) == removeFragment(link) \notin visited

\* a child pushed at the depth of its parent
ChildDepthSame(depth) == depth
\* depth + 1
ChildDepth(depth) == depth + 1

RECURSIVE NewEntries(_, _, _)
NewEntries(links, visited, depth) ==
  IF links = <<>> THEN <<>>
  ELSE LET rest == NewEntries(Tail(links), visited, depth)
       IN  IF NotVisited(Head(links), visited)
             THEN <<[url |-> Head(links), depth |-> ChildDepth(depth)]>> \o rest
             ELSE rest

\* the entries put at the head of the queue, as unshift would
PushFront(queue, entries) == entries \o queue
\* urlQueue.push, once per entry, in order
Push(queue, entries) == queue \o entries

\* the lists of a.href values a page may carry, in document order
LinkLists == UNION {[1..n -> Hrefs] : n \in 0..MaxLinks}

\* ------------------------------------------------------ crawl loop guards
\* the map entry written with the normalized address as its value
RecordNormalized(original, normalizedUrl, currentUrl) ==
  (normalizedUrl :> normalizedUrl) @@ original
\* originalUrls.set(normalizedUrl, currentUrl)
RecordOriginal(original, normalizedUrl, currentUrl) ==
  (normalizedUrl :> currentUrl) @@ original

\* the page counted only later, once its document is written
CountPageLater(m) == m
\* metadata.pagesScraped++
CountPage(m) == [m EXCEPT !.pagesScraped = @ + 1]

\* the visited test applied to the address as dequeued, fragment and all
AlreadyVisitedRaw(currentUrl, visited) == currentUrl \in visited
\* visitedUrls.has(normalizedUrl)
AlreadyVisited(currentUrl, visited) == removeFragment(currentUrl) \in visited
\* the depth test off by one
TooDeepOffByOne(depth, maxDepth) == depth > maxDepth + 1
\* depth > maxDepth
TooDeep(depth, maxDepth) == depth > maxDepth

\* ------------------------------------------- createIndexMarkdown (382-422)
\* the order of the first UTF-16 code unit of each token
TokRank(t) ==
  CASE t = "#" -> 35
    [] t = ".md" -> 46
    [] t = "/" -> 47
    [] t = "?" -> 63
    [] t = "[" -> 91
    [] t = "_" -> 95
    [] t = "a" -> 97
    [] t = "b" -> 98
    [] t = "example.com" -> 101
    [] t = "f" -> 102
    [] t = HostA -> 104
    [] t = HostB -> 105
    [] t = "index" -> 106
    [] t = "javascript:" -> 107
    [] t = "mailto:" -> 109
    [] t = "q" -> 113
    [] OTHER -> 0

\* s sorts at or before t in Array.prototype.sort's default string order
RECURSIVE StrLeq(_, _)
StrLeq(s, t) ==
  IF s = <<>> THEN TRUE
  ELSE IF t = <<>> THEN FALSE
  ELSE IF TokRank(Head(s)) < TokRank(Head(t)) THEN TRUE
  ELSE IF TokRank(Head(s)) > TokRank(Head(t)) THEN FALSE
  ELSE StrLeq(Tail(s), Tail(t))

\* the sort with its comparison reversed
RECURSIVE SortedDescending(_)
SortedDescending(urls) ==
  IF urls = {} THEN <<>>
  ELSE LET most == CHOOSE u \in urls : \A v \in urls : StrLeq(Str(v), Str(u))
       IN  <<most>> \o SortedDescending(urls \ {most})

\* Array.from(visitedUrls), then urls.sort()
RECURSIVE Sorted(_)
Sorted(urls) ==
  IF urls = {} THEN <<>>
  ELSE LET least == CHOOSE u \in urls : \A v \in urls : StrLeq(Str(u), Str(v))
       IN  <<least>> \o Sorted(urls \ {least})

\* originalUrls.get(normalizedUrl) || normalizedUrl
OriginalOf(original, normalizedUrl) ==
  IF normalizedUrl \in DOMAIN original THEN original[normalizedUrl] ELSE normalizedUrl

\* the list entries of index.md
IndexEntries(visited, original) ==
  LET urls == Sorted(visited)
  IN  [i \in 1..Len(urls) |->
         [label |-> OriginalOf(original, urls[i]), file |-> FileName(urls[i])]]

\* new URL(normalizedUrl) throws inside the loop of lines 404-415
IndexThrows(visited) == \E u \in visited : ~Parses(u)

\* ------------------------------------ elementToMarkdown, case 'ol' (284-291)
\* the tag names of element.children of an <ol>, in document order
OlChildLists == UNION {[1..n -> {"li", "div"}] : n \in 0..MaxChildren}

\* forEach((child, i) => ...): position k of the sequence is index i = k - 1,
\* and the line of a list item starts with i + 1
RECURSIVE OlItems(_, _)
OlItems(children, k) ==
  IF k > Len(children) THEN <<>>
  ELSE (IF children[k] = "li"
          THEN <<[number |-> (k - 1) + 1, child |-> k]>>
          ELSE <<>>)
       \o OlItems(children, k + 1)

\* olItems ? `${olItems}\n` : ''
OlToMarkdown(children) ==
  LET olItems == OlItems(children, 1)
  IN  [lines |-> olItems, blank |-> olItems # <<>>]

NoRender == [ol |-> <<>>, markdown |-> [lines |-> <<>>, blank |-> FALSE]]

\* ------------------------------------------------ what the crawl has seen
\* the first spelling under which each normalized address was discovered
RECURSIVE Discover(_, _)
Discover(seen, links) ==
  IF links = <<>> THEN seen
  ELSE LET key == removeFragment(Head(links))
       IN  Discover(IF key \in DOMAIN seen THEN seen
                    ELSE (key :> Head(links)) @@ seen,
                    Tail(links))

\* the normalized targets of the links a page carries
Targets(links) == {removeFragment(links[i]) : i \in 1..Len(links)}

\* --------------------------------------------------------------- the state
VARIABLES
  argv,          \* process.argv[2], process.argv[3]
  metadata,      \* startUrl, maxDepth, pagesScraped, markdownFiles
  visitedUrls,   \* Set of normalized addresses
  urlQueue,      \* the frontier: sequence of [url, depth]
  originalUrls,  \* Map normalized address -> original address
  pc,            \* the position of the one thread of control
  cur,           \* [currentUrl, depth] of the entry being processed
  step,          \* what became of the entry dequeued last
  outcome,       \* how far the current page got inside the inner try
  snap,          \* the counters as they were when cur was dequeued
  browser,       \* "none", "open", "closed"
  browserCloses, \* number of calls of browser.close()
  openPages,     \* normalized addresses whose context is open
  newPages,      \* number of contexts acquired by browser.newPage()
  pageCloses,    \* number of calls of page.close()
  hrefs,         \* the a.href values read by the last link harvest
  rendered,      \* the <ol> under conversion and the markdown made of it
  firstSeen,     \* normalized address -> the first spelling discovered
  site,          \* harvested page -> normalized targets of its accepted links
  processed,     \* entries handed to the page pipeline, in order
  mdWrites,      \* writes of page documents, in order: [file, url]
  screenshots,   \* names of the screenshots written
  pushed,        \* number of entries pushed onto the frontier by line 179
  indexFile,     \* markdown/index.md
  metadataFile,  \* metadata.json
  fatal,         \* the error that left the per-page boundary, or "none"
  exitCode       \* process exit status, -1 while running

vars == <<argv, metadata, visitedUrls, urlQueue, originalUrls, pc, cur, step,
          outcome, snap, browser, browserCloses, openPages, newPages,
          pageCloses, hrefs, rendered, firstSeen, site, processed, mdWrites, screenshots, pushed, indexFile, metadataFile,
          fatal, exitCode>>

NoEntry == [url |-> NoAddr, depth |-> 0]
Counters(m) == [pagesScraped |-> m.pagesScraped, markdownFiles |-> m.markdownFiles]
NoFile == [written |-> FALSE, entries |-> <<>>, pagesScraped |-> 0, markdownFiles |-> 0]

\* main (425-432) and scrapeToMarkdown up to line 59
Init ==
  /\ argv \in [url : UrlArgs, depth : DepthArgs]
  /\ LET targetUrl == removeFragment(ParseTarget(argv.url))
     IN  /\ metadata = [startUrl |-> targetUrl, maxDepth |-> ParseDepth(argv.depth),
                        pagesScraped |-> 0, markdownFiles |-> 0]
         /\ urlQueue = <<[url |-> targetUrl, depth |-> 0]>>
         /\ originalUrls = (targetUrl :> targetUrl)
         /\ firstSeen = (targetUrl :> targetUrl)
  /\ visitedUrls = {}
  /\ pc = "launch"
  /\ cur = NoEntry
  /\ step = "none"
  /\ outcome = "none"
  /\ snap = [pagesScraped |-> 0, markdownFiles |-> 0]
  /\ browser = "none"
  /\ browserCloses = 0
  /\ openPages = {}
  /\ newPages = 0
  /\ pageCloses = 0
  /\ hrefs = <<>>
  /\ rendered = NoRender
  /\ site = [p \in {} |-> {}]
  /\ processed = <<>>
  /\ mdWrites = <<>>
  /\ screenshots = {}
  /\ pushed = 0
  /\ indexFile = NoFile
  /\ metadataFile = NoFile
  /\ fatal = "none"
  /\ exitCode = -1

\* -------------------------------------------------------------- actions
\* the outer catch without the finally that closes the browser
CaughtWithoutFinally(label) ==
  /\ fatal' = label
  /\ pc' = "exited"

\* an error thrown inside the outer try and outside the inner one: caught
\* at line 208, logged, and control passes to the outer finally
Caught(label) ==
  /\ fatal' = label
  /\ pc' = "closeBrowser"

\* the harvest guard off by one
MayHarvestInclusive(depth, maxDepth) == depth <= maxDepth
\* depth < maxDepth
MayHarvest(depth, maxDepth) == depth < maxDepth

\* puppeteer.launch (62-65), before the outer try: a rejection leaves
\* scrapeToMarkdown and reaches the catch of main, which exits with 1
Launch ==
  /\ pc = "launch"
  /\ \/ /\ browser' = "open"
        /\ pc' = "loop"
        /\ UNCHANGED <<fatal, exitCode>>
     \/ /\ fatal' = "launch"
        /\ pc' = "exited"
        /\ exitCode' = 1
        /\ UNCHANGED browser
  /\ UNCHANGED <<rendered, firstSeen, site,
                 newPages, hrefs, argv, metadata, visitedUrls, urlQueue, originalUrls, cur, step,
                 outcome, snap, browserCloses, openPages, pageCloses, processed,
                 mdWrites, screenshots, pushed, indexFile, metadataFile>>

\* lines 68-92: take the head of the queue, discard it or claim it
Dequeue ==
  /\ pc = "loop"
  /\ urlQueue # <<>>
  /\ LET entry         == Head(urlQueue)
         normalizedUrl == removeFragment(entry.url)
     IN  /\ urlQueue' = Tail(urlQueue)
         /\ cur' = entry
         /\ outcome' = "none"
         /\ snap' = Counters(metadata)
         /\ IF AlreadyVisited(entry.url, visitedUrls)
              THEN /\ step' = "skipVisited"
                   /\ UNCHANGED <<pc, visitedUrls, originalUrls, metadata, processed>>
            ELSE IF TooDeep(entry.depth, metadata.maxDepth)
              THEN /\ step' = "skipDepth"
                   /\ UNCHANGED <<pc, visitedUrls, originalUrls, metadata, processed>>
            ELSE /\ step' = "claimed"
                 /\ visitedUrls' = visitedUrls \cup {normalizedUrl}
                 /\ originalUrls' = RecordOriginal(originalUrls, normalizedUrl, entry.url)
                 /\ metadata' = CountPage(metadata)
                 /\ processed' = Append(processed,
                                   [url |-> normalizedUrl, orig |-> entry.url,
                                    depth |-> entry.depth])
                 /\ pc' = "newPage"
  /\ UNCHANGED <<rendered, firstSeen, site,
                 newPages, hrefs, argv, browser, browserCloses, openPages, pageCloses, mdWrites,
                 screenshots, pushed, indexFile, metadataFile, fatal, exitCode>>

\* line 95: browser.newPage()
NewPage ==
  /\ pc = "newPage"
  /\ \/ /\ openPages' = openPages \cup {removeFragment(cur.url)}
        /\ newPages' = newPages + 1
        /\ pc' = "setUserAgent"
        /\ UNCHANGED fatal
     \/ /\ Caught("newPage")
        /\ UNCHANGED <<openPages, newPages>>
  /\ UNCHANGED <<rendered, firstSeen, site,
                 pageCloses, hrefs, argv, metadata, visitedUrls, urlQueue, originalUrls, cur, step,
                 outcome, snap, browser, browserCloses, processed, mdWrites,
                 screenshots, pushed, indexFile, metadataFile, exitCode>>

\* line 96: page.setUserAgent(...), after newPage and before the inner try
SetUserAgent ==
  /\ pc = "setUserAgent"
  /\ \/ /\ pc' = "goto"
        /\ UNCHANGED fatal
     \/ Caught("setUserAgent")
  /\ UNCHANGED <<rendered, firstSeen, site,
                 newPages, hrefs, argv, metadata, visitedUrls, urlQueue, originalUrls, cur, step,
                 outcome, snap, browser, browserCloses, openPages, pageCloses,
                 processed, mdWrites, screenshots, pushed, indexFile,
                 metadataFile, exitCode>>

\* lines 100-115: page.goto, the metadata evaluate, extractContentAsMarkdown
\* (here of a page whose main element is an ordered list); a string that is
\* no URL cannot be navigated to
Render ==
  /\ pc = "goto"
  /\ \E r \in {"goto", "evaluate", "extract", "ok"} :
       /\ ~Parses(cur.url) => r = "goto"
       /\ IF r = "ok"
            THEN /\ pc' = "write"
                 /\ \E children \in OlChildLists :
                      rendered' = [ol |-> children,
                                   markdown |-> OlToMarkdown(children)]
                 /\ UNCHANGED outcome
            ELSE /\ pc' = "closePage"
                 /\ outcome' = r
                 /\ UNCHANGED rendered
  /\ UNCHANGED <<firstSeen, site,
                 newPages, hrefs, argv, metadata, visitedUrls, urlQueue, originalUrls, cur, step,
                 snap, browser, browserCloses, openPages, pageCloses, processed,
                 mdWrites, screenshots, pushed, indexFile, metadataFile, fatal,
                 exitCode>>

\* lines 117-138: derive the file name, write the document (which consumes
\* the markdown), count it
WriteDocument ==
  /\ pc = "write"
  /\ rendered' = NoRender
  /\ LET normalizedUrl == removeFragment(cur.url)
     IN  IF ~Parses(normalizedUrl)
           THEN /\ outcome' = "filename"
                /\ pc' = "closePage"
                /\ UNCHANGED <<mdWrites, metadata>>
           ELSE \/ /\ mdWrites' = Append(mdWrites,
                                    [file |-> FileName(normalizedUrl),
                                     url |-> normalizedUrl])
                   /\ metadata' = [metadata EXCEPT !.markdownFiles = @ + 1]
                   /\ pc' = "screenshot"
                   /\ UNCHANGED outcome
                \/ /\ outcome' = "write"
                   /\ pc' = "closePage"
                   /\ UNCHANGED <<mdWrites, metadata>>
  /\ UNCHANGED <<firstSeen, site,
                 newPages, hrefs, argv, visitedUrls, urlQueue, originalUrls, cur, step, snap,
                 browser, browserCloses, openPages, pageCloses, processed,
                 screenshots, pushed, indexFile, metadataFile, fatal, exitCode>>

\* lines 142-147: page.screenshot
Screenshot ==
  /\ pc = "screenshot"
  /\ \/ /\ screenshots' = screenshots
                          \cup {ScreenshotName(FileName(removeFragment(cur.url)))}
        /\ pc' = "harvest"
        /\ UNCHANGED outcome
     \/ /\ outcome' = "screenshot"
        /\ pc' = "closePage"
        /\ UNCHANGED screenshots
  /\ UNCHANGED <<rendered, firstSeen, site,
                 newPages, hrefs, argv, metadata, visitedUrls, urlQueue, originalUrls, cur, step,
                 snap, browser, browserCloses, openPages, pageCloses, processed,
                 mdWrites, pushed, indexFile, metadataFile, fatal, exitCode>>

\* lines 149-182: collect the links of the page and push the new ones
Harvest ==
  /\ pc = "harvest"
  /\ IF MayHarvest(cur.depth, metadata.maxDepth)
       THEN \/ \E h \in LinkLists :
                 LET links   == Filter(h, cur.url)
                     entries == NewEntries(Unique(links), visitedUrls, cur.depth)
                 IN  /\ urlQueue' = Push(urlQueue, entries)
                     /\ pushed' = pushed + Len(entries)
                     /\ hrefs' = h
                     /\ firstSeen' = Discover(firstSeen, Unique(links))
                     /\ site' = (removeFragment(cur.url) :> Targets(links)) @@ site
                     /\ outcome' = "ok"
            \/ /\ outcome' = "links"
               /\ UNCHANGED <<urlQueue, pushed, hrefs, firstSeen, site>>
       ELSE /\ outcome' = "ok"
            /\ UNCHANGED <<urlQueue, pushed, hrefs, firstSeen, site>>
  /\ pc' = "closePage"
  /\ UNCHANGED <<rendered,
                 newPages, argv, metadata, visitedUrls, originalUrls, cur, step, snap,
                 browser, browserCloses, openPages, pageCloses, processed,
                 mdWrites, screenshots, indexFile, metadataFile, fatal, exitCode>>

\* lines 183-187: the inner catch logs, the inner finally closes the page;
\* when page.close() rejects the context may or may not be gone
ClosePage ==
  /\ pc = "closePage"
  /\ pageCloses' = pageCloses + 1
  /\ hrefs' = <<>>
  /\ \/ /\ openPages' = openPages \ {removeFragment(cur.url)}
        /\ pc' = "loop"
        /\ UNCHANGED fatal
     \/ /\ Caught("pageClose")
        /\ \/ openPages' = openPages \ {removeFragment(cur.url)}
           \/ UNCHANGED openPages
  /\ UNCHANGED <<rendered, firstSeen, site,
                 newPages, argv, metadata, visitedUrls, urlQueue, originalUrls, cur, step,
                 outcome, snap, browser, browserCloses, processed, mdWrites,
                 screenshots, pushed, indexFile, metadataFile, exitCode>>

\* line 68: the queue is empty, the loop ends
QueueEmpty ==
  /\ pc = "loop"
  /\ urlQueue = <<>>
  /\ pc' = "index"
  /\ UNCHANGED <<rendered, firstSeen, site,
                 newPages, hrefs, argv, metadata, visitedUrls, urlQueue, originalUrls, cur, step,
                 outcome, snap, browser, browserCloses, openPages, pageCloses,
                 processed, mdWrites, screenshots, pushed, indexFile,
                 metadataFile, fatal, exitCode>>

\* line 191: createIndexMarkdown
CreateIndex ==
  /\ pc = "index"
  /\ IF IndexThrows(visitedUrls)
       THEN /\ Caught("indexUrl")
            /\ UNCHANGED indexFile
       ELSE \/ /\ indexFile' = [written |-> TRUE,
                                entries |-> IndexEntries(visitedUrls, originalUrls),
                                pagesScraped |-> metadata.pagesScraped,
                                markdownFiles |-> metadata.markdownFiles]
               /\ pc' = "metadata"
               /\ UNCHANGED fatal
            \/ /\ Caught("indexWrite")
               /\ UNCHANGED indexFile
  /\ UNCHANGED <<rendered, firstSeen, site,
                 newPages, hrefs, argv, metadata, visitedUrls, urlQueue, originalUrls, cur, step,
                 outcome, snap, browser, browserCloses, openPages, pageCloses,
                 processed, mdWrites, screenshots, pushed, metadataFile,
                 exitCode>>

\* lines 194-201: write metadata.json
WriteMetadata ==
  /\ pc = "metadata"
  /\ \/ /\ metadataFile' = [written |-> TRUE, entries |-> <<>>,
                            pagesScraped |-> metadata.pagesScraped,
                            markdownFiles |-> metadata.markdownFiles]
        /\ pc' = "closeBrowser"
        /\ UNCHANGED fatal
     \/ /\ Caught("metadataWrite")
        /\ UNCHANGED metadataFile
  /\ UNCHANGED <<rendered, firstSeen, site,
                 newPages, hrefs, argv, metadata, visitedUrls, urlQueue, originalUrls, cur, step,
                 outcome, snap, browser, browserCloses, openPages, pageCloses,
                 processed, mdWrites, screenshots, pushed, indexFile, exitCode>>

\* lines 210-212 and 429-432: the outer finally closes the browser; the
\* promise then resolves (exit status 0) unless browser.close() rejected
CloseBrowser ==
  /\ pc = "closeBrowser"
  /\ browserCloses' = browserCloses + 1
  /\ pc' = "exited"
  /\ \/ /\ browser' = "closed"
        /\ openPages' = {}
        /\ exitCode' = 0
        /\ UNCHANGED fatal
     \/ /\ fatal' = "browserClose"
        /\ exitCode' = 1
        /\ UNCHANGED <<browser, openPages>>
  /\ UNCHANGED <<rendered, firstSeen, site,
                 newPages, hrefs, argv, metadata, visitedUrls, urlQueue, originalUrls, cur, step,
                 outcome, snap, pageCloses, processed, mdWrites, screenshots,
                 pushed, indexFile, metadataFile>>

Next ==
  \/ Launch
  \/ Dequeue
  \/ NewPage
  \/ SetUserAgent
  \/ Render
  \/ WriteDocument
  \/ Screenshot
  \/ Harvest
  \/ ClosePage
  \/ QueueEmpty
  \/ CreateIndex
  \/ WriteMetadata
  \/ CloseBrowser

Spec == Init /\ [][Next]_vars

\* the one thread of control keeps running: every awaited call returns or
\* fails, and nothing else is scheduled
FairSpec == Spec /\ WF_vars(Next)

TypeOK ==
  /\ pc \in {"launch", "loop", "newPage", "setUserAgent", "goto", "write",
             "screenshot", "harvest", "closePage", "index", "metadata",
             "closeBrowser", "exited"}
  /\ exitCode \in {-1, 0, 1}
  /\ browser \in {"none", "open", "closed"}
  /\ metadata.pagesScraped \in Nat /\ metadata.markdownFiles \in Nat

\* ------------------------------------------------------------ properties
InQueue(link, depth) ==
  \E j \in 1..Len(urlQueue) : urlQueue[j].url = link /\ urlQueue[j].depth = depth

\* the link is an absolute URL on the host of the page
SameHost(link, page) ==
  link.kind = "url" /\ page.kind = "url" /\ link.host = page.host

\* C1: no normalized address is handed to the page pipeline twice, whatever
\* pages fail; entries that differ only in their fragment yield one page.
C1_ProcessedAtMostOnce ==
  \A i, j \in 1..Len(processed) :
    i # j => processed[i].url # processed[j].url

\* a fragment-bearing entry was dequeued and discarded because the page it
\* names had been processed under another spelling
C1_Witness ==
  /\ step = "skipVisited"
  /\ cur.url.frag # ""
  /\ \E i \in 1..Len(processed) :
       /\ processed[i].url = removeFragment(cur.url)
       /\ processed[i].orig # cur.url

\* C2: an entry removed from the queue either succeeds and adds one to
\* pagesScraped, or is discarded or fails and leaves both counters as they
\* were.
C2_FailureLeavesCounters ==
  /\ step \in {"skipVisited", "skipDepth"} => Counters(metadata) = snap
  /\ (pc = "closePage" /\ outcome = "ok") =>
       metadata.pagesScraped = snap.pagesScraped + 1
  /\ (pc = "closePage" /\ outcome # "ok") => Counters(metadata) = snap

\* the environment made a call outside the per-page try fail
EnvironmentFault ==
  fatal \in {"launch", "newPage", "setUserAgent", "pageClose", "indexWrite",
             "metadataWrite", "browserClose"}

\* C3: page failures do not abort the crawl: unless the environment fails a
\* call outside the per-page boundary, the run ends with index.md and
\* metadata.json written, even when every page failed.
C3_RunEndsWithIndexAndMetadata ==
  (pc = "exited" /\ ~EnvironmentFault) =>
    (indexFile.written /\ metadataFile.written)

\* C4: every entry handed to the page pipeline has a depth between 0 and
\* maxDepth.
C4_ProcessedDepthBounded ==
  \A i \in 1..Len(processed) :
    0 <= processed[i].depth /\ processed[i].depth <= metadata.maxDepth

\* a page was processed at exactly the maximum depth, below the seed
C4_Witness ==
  /\ metadata.maxDepth >= 1
  /\ \E i \in 1..Len(processed) : processed[i].depth = metadata.maxDepth

\* C5: run with a maximum depth of 0, the program never pushes anything onto
\* the frontier and processes the seed only; when the seed's document is
\* written and the run completes, one document exists, pagesScraped is 1 and
\* the index lists the seed alone.
C5_DepthZeroSeedOnly ==
  (argv.depth.given /\ argv.depth.n = 0) =>
    /\ pushed = 0
    /\ Len(processed) <= 1
    /\ (pc = "exited" /\ fatal = "none"
          /\ metadata.markdownFiles = metadata.pagesScraped) =>
         /\ Len(mdWrites) = 1
         /\ metadata.pagesScraped = 1
         /\ Len(indexFile.entries) = 1
         /\ indexFile.entries[1].label = metadata.startUrl

\* C6: the exit status is non-zero exactly when an error left the per-page
\* boundary.
C6_ExitStatusReportsFatal ==
  pc = "exited" => (exitCode # 0 <=> fatal # "none")

\* C7: every context acquired is closed by page.close() before the loop goes
\* on or the run ends, so none is open between pages or at exit and at most
\* one is open at a time.
C7_ContextReleased ==
  /\ Cardinality(openPages) <= 1
  /\ pc \in {"loop", "index", "metadata", "closeBrowser", "exited"} =>
       pageCloses = newPages
  /\ pc = "loop" => openPages = {}

\* C8: a launched engine has browser.close() called on it exactly once, as
\* the last step of the run, on the normal path and after a fatal error.
C8_EngineReleasedOnce ==
  /\ browser = "none" => browserCloses = 0
  /\ browserCloses <= 1
  /\ browserCloses = 1 => pc = "exited"
  /\ (pc = "exited" /\ browser # "none") => browserCloses = 1

\* the run ended on a fatal error inside the loop, after a page had been
\* processed, and the engine was closed
C8_Witness ==
  /\ pc = "exited"
  /\ fatal \in {"newPage", "setUserAgent", "pageClose"}
  /\ Len(processed) >= 2
  /\ browserCloses = 1

\* C9 (only if): whatever the harvest pushes starts with '/' or is an
\* absolute link on the host of the page it was found on.
C9_PushedPassFilter ==
  [][\A i \in (Len(urlQueue) + 1)..Len(urlQueue') :
       \/ StartsWithSlash(urlQueue'[i].url)
       \/ SameHost(urlQueue'[i].url, cur.url)]_vars

\* C9 (if): after a harvest, every link read from the page that starts with
\* '/' or is an absolute link on the page's host, and is not yet visited, is
\* on the frontier one level down.
C9_AcceptedArePushed ==
  (pc = "closePage" /\ outcome = "ok") =>
    \A i \in 1..Len(hrefs) :
      ( /\ StartsWithSlash(hrefs[i]) \/ SameHost(hrefs[i], cur.url)
        /\ removeFragment(hrefs[i]) \notin visitedUrls )
      => InQueue(hrefs[i], cur.depth + 1)

\* C9: a harvested link is pushed only if it passes the same-domain filter;
\* an absolute link passes iff its host is the host of the page, a link that
\* starts with '/' always passes.
C9_SameDomainFilter == []C9_AcceptedArePushed /\ C9_PushedPassFilter

\* a page carried a link to its own host and a link to another host: the
\* first is on the frontier, the second is not
C9_Witness ==
  /\ pc = "closePage"
  /\ outcome = "ok"
  /\ \E i, j \in 1..Len(hrefs) :
       /\ SameHost(hrefs[i], cur.url)
       /\ InQueue(hrefs[i], cur.depth + 1)
       /\ hrefs[j].kind = "url"
       /\ ~SameHost(hrefs[j], cur.url)
       /\ \A d \in 0..(cur.depth + 1) : ~InQueue(hrefs[j], d)

\* C10: no page document is written over: two writes never go to one file
\* name.
C10_DocumentsNeverOverwritten ==
  \A i, j \in 1..Len(mdWrites) :
    i # j => mdWrites[i].file # mdWrites[j].file

\* the normalized address an index entry stands for
EntryKey(entry) == removeFragment(entry.label)

\* C11: index.md is written only once the frontier is empty; it has exactly
\* one entry per visited normalized address, each linking the file name of
\* that address, in ascending string order of the normalized address.
C11_IndexSortedAndComplete ==
  indexFile.written =>
    /\ urlQueue = <<>>
    /\ Len(indexFile.entries) = Cardinality(visitedUrls)
    /\ {EntryKey(indexFile.entries[i]) : i \in 1..Len(indexFile.entries)} = visitedUrls
    /\ \A i \in 1..Len(indexFile.entries) :
         indexFile.entries[i].file = FileName(EntryKey(indexFile.entries[i]))
    /\ \A i \in 1..(Len(indexFile.entries) - 1) :
         /\ EntryKey(indexFile.entries[i]) # EntryKey(indexFile.entries[i + 1])
         /\ StrLeq(Str(EntryKey(indexFile.entries[i])),
                   Str(EntryKey(indexFile.entries[i + 1])))

\* an index of three pages was written, one of them listed under a
\* fragment-bearing address
C11_Witness ==
  /\ indexFile.written
  /\ Len(indexFile.entries) >= 3
  /\ \E i \in 1..Len(indexFile.entries) : indexFile.entries[i].label.frag # ""

\* the addresses the run currently holds
AddressesInPlay ==
  {cur.url, ParseTarget(argv.url)}
    \cup {urlQueue[i].url : i \in 1..Len(urlQueue)}
    \cup {hrefs[i] : i \in 1..Len(hrefs)}
    \cup visitedUrls

\* C12: removeFragment is idempotent and total: applied to any address the
\* run holds it returns an address, applying it again changes nothing, a
\* parseable address loses its fragment and an unparseable one comes back
\* unchanged.
C12_NormalizeIdempotentTotal ==
  \A x \in AddressesInPlay :
    /\ removeFragment(removeFragment(x)) = removeFragment(x)
    /\ Parses(x) => (Parses(removeFragment(x)) /\ removeFragment(x).frag = "")
    /\ ~Parses(x) => removeFragment(x) = x

\* an unparseable address was normalized and claimed as visited while a
\* fragment-bearing address waits on the frontier
C12_Witness ==
  /\ \E u \in visitedUrls : ~Parses(u) /\ u # NoAddr
  /\ \E i \in 1..Len(urlQueue) : urlQueue[i].url.frag # ""

\* C13 (frontier): with a non-negative maxDepth no frontier entry is deeper
\* than maxDepth.
C13_FrontierDepthBounded ==
  metadata.maxDepth >= 0 =>
    \A i \in 1..Len(urlQueue) : urlQueue[i].depth <= metadata.maxDepth

\* C13 (leaf): the harvest step of a page at depth maxDepth pushes nothing.
C13_LeafPushesNothing ==
  [][(pc = "harvest" /\ cur.depth = metadata.maxDepth) =>
       (urlQueue' = urlQueue /\ pushed' = pushed)]_vars

\* C13: a page processed at depth maxDepth pushes nothing onto the frontier,
\* so for maxDepth >= 0 the frontier never holds an entry deeper than
\* maxDepth.
C13_NoChildrenBelowMaxDepth == []C13_FrontierDepthBounded /\ C13_LeafPushesNothing

\* a page at depth maxDepth, below the seed, went through the harvest step
C13_Witness ==
  /\ pc = "closePage"
  /\ outcome = "ok"
  /\ cur.depth = metadata.maxDepth
  /\ cur.depth >= 1
  /\ hrefs = <<>>

\* C14: entries leave the frontier, and pages are processed, in
\* non-decreasing order of depth: the processed depths never decrease, the
\* frontier is ordered by depth, and its head is no shallower than the entry
\* dequeued last.
C14_BreadthFirstOrder ==
  /\ \A i, j \in 1..Len(processed) :
       i < j => processed[i].depth <= processed[j].depth
  /\ \A i, j \in 1..Len(urlQueue) :
       i < j => urlQueue[i].depth <= urlQueue[j].depth
  /\ (cur # NoEntry /\ urlQueue # <<>>) => cur.depth <= Head(urlQueue).depth

\* two pages of depth 1 were processed before a page of depth 2, while
\* another entry still waits on the frontier
C14_Witness ==
  /\ \E i, j, k \in 1..Len(processed) :
       /\ i < j /\ j < k
       /\ processed[i].depth = 1
       /\ processed[j].depth = 1
       /\ processed[k].depth = 2
  /\ urlQueue # <<>>

\* every normalized address the run can meet
AllNormalized ==
  {removeFragment(a) : a \in Hrefs \cup SeedArgs \cup {DefaultTarget}}

\* the steps left before the current page, or the run, is done, counting
\* one for each entry the harvest may still push
PcRank ==
  CASE pc = "launch" -> 12 + MaxLinks
    [] pc = "newPage" -> 11 + MaxLinks
    [] pc = "setUserAgent" -> 10 + MaxLinks
    [] pc = "goto" -> 9 + MaxLinks
    [] pc = "write" -> 8 + MaxLinks
    [] pc = "screenshot" -> 7 + MaxLinks
    [] pc = "harvest" -> 6 + MaxLinks
    [] pc = "closePage" -> 5
    [] pc = "loop" -> 4
    [] pc = "index" -> 3
    [] pc = "metadata" -> 2
    [] pc = "closeBrowser" -> 1
    [] OTHER -> 0

\* a measure of the work left: pages not yet visited, then frontier
\* entries, then steps of the current page
WorkLeft ==
  Cardinality(AllNormalized \ visitedUrls) * (MaxLinks + 9)
    + Len(urlQueue) + PcRank

\* C15 (termination alone): every step of the run lowers the work left,
\* whatever cycles the links form, so the run ends after finitely many steps.
C15_WorkLeftDecreases == [][WorkLeft' < WorkLeft]_vars

\* C15: with every renderer call returning or failing, the crawl loop
\* terminates: unless the environment fails a call outside the per-page
\* boundary, the frontier eventually is empty and index.md and metadata.json
\* are written.
C15_CrawlEndsWithIndex ==
  <>(\/ EnvironmentFault
     \/ (urlQueue = <<>> /\ indexFile.written /\ metadataFile.written))

\* C16 (first form): the map gives every visited address the first spelling
\* under which it reached the frontier (the seed reaches it normalized, by
\* line 29).
C16_OriginalIsFirstSeen ==
  \A n \in visitedUrls :
    n \in DOMAIN originalUrls /\ originalUrls[n] = firstSeen[n]

\* C16 (kept): the map entry of a visited address is never changed.
C16_OriginalNeverChanges ==
  [][\A n \in visitedUrls : originalUrls'[n] = originalUrls[n]]_vars

C17_OrderedListNumbering ==
  pc = "write" =>
    LET lines == rendered.markdown.lines
        items == {k \in 1..Len(rendered.ol) : rendered.ol[k] = "li"}
    IN  /\ Len(lines) = Cardinality(items)
        /\ \A k \in 1..Len(lines) :
             /\ lines[k].number = k
             /\ lines[k].child \in items
        /\ \A k \in 1..(Len(lines) - 1) : lines[k].child < lines[k + 1].child
        /\ rendered.markdown.blank = (lines # <<>>)

\* C18: at the end of every iteration of the crawl loop pagesScraped is the
\* size of the visited set, markdownFiles is at most pagesScraped, and
\* markdownFiles is the number of document writes that completed.
C18_CountersMatchSets ==
  pc = "loop" =>
    /\ metadata.pagesScraped = Cardinality(visitedUrls)
    /\ metadata.markdownFiles <= metadata.pagesScraped
    /\ metadata.markdownFiles = Len(mdWrites)

\* an iteration ended on a page that failed before its document was
\* written, after another page had its document written
C18_Witness ==
  /\ pc = "loop"
  /\ step = "claimed"
  /\ outcome \in {"goto", "evaluate", "extract", "write"}
  /\ metadata.markdownFiles >= 1
  /\ metadata.markdownFiles < metadata.pagesScraped

\* C19: the pages the index lists are exactly the pages whose document was
\* written during the run.
C19_IndexListsPersistedPages ==
  indexFile.written =>
    {EntryKey(indexFile.entries[i]) : i \in 1..Len(indexFile.entries)}
      = {mdWrites[j].url : j \in 1..Len(mdWrites)}

\* the normalized addresses within k links of the seed, following the
\* accepted links of the pages whose links were harvested
RECURSIVE Within(_)
Within(k) ==
  IF k < 0 THEN {}
  ELSE IF k = 0 THEN {metadata.startUrl}
  ELSE LET near == Within(k - 1)
       IN  near \cup UNION {site[p] : p \in near \cap DOMAIN site}

\* C20 (depth): the depth of a processed page is the length of the shortest
\* chain of accepted links from the seed to it.
C20_DepthIsShortestChain ==
  \A i \in 1..Len(processed) :
    /\ processed[i].url \in Within(processed[i].depth)
    /\ processed[i].url \notin Within(processed[i].depth - 1)

\* C20 (coverage): when the loop has run to its end, every page within
\* maxDepth links of the seed has been processed.
C20_NearPagesProcessed ==
  pc = "index" =>
    /\ Within(metadata.maxDepth) \subseteq visitedUrls
    /\ \A p \in Within(metadata.maxDepth) :
         \E i \in 1..Len(processed) : processed[i].url = p

\* C20: a page is processed at the depth that is the length of the shortest
\* chain of same-domain links from the seed through successfully harvested
\* pages, and a crawl that runs to its end processes every page whose
\* shortest chain is at most maxDepth.
C20_DepthsAreDistances == C20_DepthIsShortestChain /\ C20_NearPagesProcessed

\* the loop ended with a page at depth 2, and a page at depth 1 that is also
\* linked from another page of depth 1
C20_Witness ==
  /\ pc = "index"
  /\ \E i \in 1..Len(processed) : processed[i].depth = 2
  /\ \E j, k \in 1..Len(processed) :
       /\ processed[j].depth = 1
       /\ processed[k].depth = 1
       /\ processed[j].url \in DOMAIN site
       /\ processed[k].url \in site[processed[j].url]

====
